---- MODULE Spec2Model ----
(***************************************************************************)
(* Realtime device-presence and message-broadcast coordinator              *)
(* (src/server.js), its client hook (src/hooks/useWebSocket.ts) and the    *)
(* message route (src/app/api/messages/route.ts).                          *)
(*                                                                         *)
(* A socket is one transport session: it connects once, is served by the   *)
(* handlers of io.on('connection'), and closes once.  Every async handler  *)
(* runs to its first await in one step; the awaited store call resolves or *)
(* rejects in a later step, which also runs the rest of the handler.       *)
(* Time is in milliseconds and advances by TimeUnit.                       *)
(***************************************************************************)
EXTENDS Integers, Sequences, FiniteSets, TLC

\* ---------------------------------------------------------------- bounds
NumSockets == 2
\* send-message and stop-emergency commands issued in one run
MaxSends == 2
\* register-device commands issued in one run
MaxRegisters == 2
\* heartbeat commands issued in one run
MaxHeartbeats == 1
\* message POST requests issued in one run
MaxPosts == 2
\* clock ticks in one run
MaxTicks == 2
\* the retention cap of the message route (1000 in route.ts:81), scaled
RetentionCap == 2
\* armings of the emergency control in one run
MaxArms == 2
\* how far the clock of the emergency control runs, in ms
MaxButtonMs == 5000

\* ------------------------------------------------------ program constants
\* server.js:217
inactiveThreshold == 60000
\* useWebSocket.ts:134
AlertWindow == 120000
\* EmergencyButton.tsx:18: setCountdown(3)
ArmCount == 3
\* EmergencyButton.tsx:29: the period of the countdown interval
IntervalMs == 1000

\* the step of the clock: one inactivity threshold, half an alert window
TimeUnit == inactiveThreshold

Sockets == 1..NumSockets
Undefined == "undefined"
NoMsg == [id |-> 0]
NoDev == [id |-> Undefined]

VARIABLES
    sockState,         \* socket -> "new" | "connected" | "closed"
    connectedDevices,  \* the server's Map, as its entries in insertion order
    dbDevices,         \* collection 'devices': id -> <<>> or <<document>>
    dbMessages,        \* collection 'messages', in insertion order
    tasks,             \* handlers suspended on a store call
    sweep,             \* the cleanup pass: [pc, now, idx, deviceId]
    posts,             \* message POST requests: request -> [pc, message, count, oldIds]
    inbox,             \* socket -> events emitted to it, not yet handled by the client
    emitLog,           \* history: every event the server emitted
    emergencyAlert,    \* client state: socket -> <<>> or <<message>>
    timers,            \* client: socket -> pending auto-clear timeouts
    expiryLog,         \* history: the auto-clear timeouts that fired
    clientDevices,     \* client state: socket -> connectedDevices list
    deviceIdRef,       \* client: socket -> deviceIdRef.current
    now,               \* the clock, ms
    nextId,            \* source of message ids
    nRegs,             \* register-device commands issued
    nBeats,            \* heartbeat commands issued
    lastReg,           \* history: id -> <<>> or <<the latest register-device command for it>>
                       \* (n: how many commands so far, k: how many of them for this id)
    evictLog,          \* history: the devices the sweep deleted, with the sweep's now
    button             \* the EmergencyButton of one page: its state, its live interval
                       \* timers, the page's clock in ms, and history of its use

regVars == <<nRegs, nBeats, lastReg, evictLog>>

vars == <<sockState, connectedDevices, dbDevices, dbMessages, tasks, sweep, posts,
          inbox, emitLog, emergencyAlert, timers, expiryLog, clientDevices,
          deviceIdRef, now, nextId, regVars, button>>

serverVars == <<connectedDevices, dbDevices, dbMessages, tasks, sweep>>
clientVars == <<emergencyAlert, timers, expiryLog, clientDevices, deviceIdRef>>

\* ---------------------------------------------------------------- inputs
\* payloads of send-message: well-formed, emergency, empty text, no source, no text
MessageInputs ==
    { [text |-> "Hello", channel |-> "mcr-to-engine", source |-> "MCR", type |-> "normal"],
      [text |-> "HELP", channel |-> "emergency-broadcast", source |-> "ENGINE-ROOM",
       type |-> "emergency", deviceId |-> "ENGINE-ROOM"],
      [text |-> "", channel |-> "broadcast", source |-> "MCR", type |-> "normal"],
      [text |-> "Hi", channel |-> "broadcast"],
      [source |-> "MCR", type |-> "emergency"] }

DeviceIds == {"MCR", "ENGINE-ROOM"}

\* payloads of register-device
DeviceInputs ==
    { [id |-> "MCR", name |-> "Machinery Control Room", type |-> "mcr", language |-> "en-US"],
      [id |-> "MCR", name |-> "MCR standby", type |-> "mcr", language |-> "hi-IN"],
      [id |-> "ENGINE-ROOM", name |-> "Engine Room", type |-> "engine"] }

\* ---------------------------------------------------------------- helpers
Has(r, f) == f \in DOMAIN r
\* JavaScript truthiness of r.f for a string field
Truthy(r, f) == Has(r, f) /\ r[f] # ""

Connected == {s \in Sockets : sockState[s] = "connected"}

\* An emission: the event and the sockets it goes to.
\* io.emit(name, arg): to every connected socket
IoEmit(name, arg) == [name |-> name, arg |-> arg, to |-> Connected]
\* socket.emit(name, arg): to the socket itself, if it is still open
SocketEmit(s, name, arg) == [name |-> name, arg |-> arg, to |-> {s} \cap Connected]
\* socket.broadcast.emit(name, arg): to every connected socket but the socket itself
BroadcastEmit(s, name, arg) == [name |-> name, arg |-> arg, to |-> Connected \ {s}]

\* the transport: each socket's queue gets, in order, the emissions addressed to it
Sent(box, ems) == [x \in Sockets |-> box[x] \o SelectSeq(ems, LAMBDA e : x \in e.to)]

\* ------------------------------------------------- the Map connectedDevices
RECURSIVE IndexFrom(_, _, _)
IndexFrom(devs, id, i) ==
    IF i > Len(devs) THEN 0
    ELSE IF devs[i].id = id THEN i
    ELSE IndexFrom(devs, id, i + 1)

\* position of the entry with key id, 0 when there is none
IndexOf(devs, id) == IndexFrom(devs, id, 1)

MapHas(devs, id) == IndexOf(devs, id) # 0

MapGet(devs, id) == devs[IndexOf(devs, id)]

\* Map.set: an existing key keeps its place, a new key goes last
MapSetAppends(devs, id, device) == Append(devs, device)
MapSet(devs, id, device) ==
    IF MapHas(devs, id)
    THEN [devs EXCEPT ![IndexOf(devs, id)] = device]
    ELSE Append(devs, device)

KeepAt(devs, p) == devs
RemoveAt(devs, p) == [i \in 1..(Len(devs) - 1) |-> IF i < p THEN devs[i] ELSE devs[i + 1]]

\* Map.delete
MapDelete(devs, id) ==
    IF MapHas(devs, id) THEN RemoveAt(devs, IndexOf(devs, id)) ELSE devs

\* A suspended for..of over the Map keeps its place: idx counts the live
\* entries already passed, so deleting one of them moves the cursor back.
SweepAfterDelete(sw, p) ==
    IF sw.pc = "await" /\ p <= sw.idx THEN [sw EXCEPT !.idx = sw.idx - 1] ELSE sw

\* --------------------------------------------------- the store collections
\* updateOne({id}, {$set: fields}): changes the document if there is one
DbUpdate(db, id, fields) ==
    IF db[id] # <<>> THEN [db EXCEPT ![id] = <<fields @@ db[id][1]>>] ELSE db

\* updateOne({id}, {$set: doc}, {upsert: true})
DbUpsert(db, id, doc) ==
    IF db[id] # <<>> THEN [db EXCEPT ![id] = <<doc @@ db[id][1]>>]
    ELSE [db EXCEPT ![id] = <<doc>>]

Task(op, s, msg, dev) == [op |-> op, socket |-> s, msg |-> msg, dev |-> dev]

\* ------------------------------------------------------------ the sockets
\* io.on('connection'): no registry effect
Connect(s) ==
    /\ sockState[s] = "new"
    /\ sockState' = [sockState EXCEPT ![s] = "connected"]
    /\ UNCHANGED <<serverVars, posts, button, inbox, emitLog, clientVars, now, nextId, regVars>>

RECURSIVE FirstBoundFrom(_, _, _)
FirstBoundFrom(devs, s, i) ==
    IF i > Len(devs) THEN 0
    ELSE IF devs[i].socketId = s THEN i
    ELSE FirstBoundFrom(devs, s, i + 1)

FirstBoundById(devs, s) ==
    IF deviceIdRef[s] # Undefined THEN IndexOf(devs, deviceIdRef[s]) ELSE 0
\* the disconnect handler's loop: the first entry bound to the socket, 0 when none
FirstBound(devs, s) == FirstBoundFrom(devs, s, 1)

\* The transport closes and the disconnect handler runs to its await.  The
\* page is gone with its socket: its queue and its client state are dropped.
Disconnect(s) ==
    /\ sockState[s] = "connected"
    /\ sockState' = [sockState EXCEPT ![s] = "closed"]
    /\ inbox' = [inbox EXCEPT ![s] = <<>>]
    /\ emergencyAlert' = [emergencyAlert EXCEPT ![s] = <<>>]
    /\ timers' = [timers EXCEPT ![s] = {}]
    /\ clientDevices' = [clientDevices EXCEPT ![s] = <<>>]
    /\ deviceIdRef' = [deviceIdRef EXCEPT ![s] = Undefined]
    /\ LET p == FirstBound(connectedDevices, s) IN
         IF p # 0
         THEN /\ connectedDevices' = RemoveAt(connectedDevices, p)
              /\ sweep' = SweepAfterDelete(sweep, p)
              /\ tasks' = tasks \cup {Task("disconnect", s, NoMsg, [id |-> connectedDevices[p].id])}
         ELSE UNCHANGED <<connectedDevices, sweep, tasks>>
    /\ UNCHANGED <<dbDevices, dbMessages, posts, button, emitLog, expiryLog, now, nextId, regVars>>

\* ------------------------------------------------------------ send-message
\* server.js:110-114: id and timestamp first, then the payload spread over them
NewMessage(data) == data @@ [id |-> nextId, timestamp |-> now]

IsEmergency(msg) == Has(msg, "type") /\ msg.type = "emergency"

\* insertOne(doc) gives a document without _id a fresh one when it is called
WithObjectId(doc, oid) == doc @@ [_id |-> oid]

\* server.js:108-117: build the message, start insertOne
SendMessage(s, data) ==
    /\ sockState[s] = "connected"
    /\ nextId <= MaxSends
    /\ nextId' = nextId + 1
    /\ tasks' = tasks \cup {Task("send-message", s, WithObjectId(NewMessage(data), nextId), NoDev)}
    /\ UNCHANGED <<sockState, connectedDevices, dbDevices, dbMessages, sweep, posts, button,
                   inbox, emitLog, clientVars, now, regVars>>

\* server.js:120
EmitNewMessageIfOpen(s, msg) ==
    IF s \in Connected THEN IoEmit("new-message", msg) ELSE SocketEmit(s, "new-message", msg)
EmitNewMessageToOthers(s, msg) == BroadcastEmit(s, "new-message", msg)
EmitNewMessage(s, msg) == IoEmit("new-message", msg)

AlertEmitted == \E i \in DOMAIN emitLog : emitLog[i].name = "emergency-alert"

EmitEmergencyAlertOnce(s, msg) ==
    IF IsEmergency(msg) /\ ~AlertEmitted THEN <<IoEmit("emergency-alert", msg)>> ELSE <<>>
\* server.js:123-125
EmitEmergencyAlert(s, msg) ==
    IF IsEmergency(msg) THEN <<IoEmit("emergency-alert", msg)>> ELSE <<>>

\* server.js:127-132: message.text.substring throws when text is undefined
LogThrows(msg) == ~Has(msg, "text")

\* server.js:133-136
SendFailed(s) == SocketEmit(s, "error", "Failed to send message")

\* server.js:117-136: insertOne settles; on success the broadcasts, on any throw the error
SendMessageDone(t, ok) ==
    /\ t \in tasks
    /\ t.op = "send-message"
    /\ tasks' = tasks \ {t}
    /\ LET out == IF ok
                  THEN <<EmitNewMessage(t.socket, t.msg)>>
                       \o EmitEmergencyAlert(t.socket, t.msg)
                       \o (IF LogThrows(t.msg) THEN <<SendFailed(t.socket)>> ELSE <<>>)
                  ELSE <<SendFailed(t.socket)>>
       IN /\ dbMessages' = IF ok THEN Append(dbMessages, t.msg) ELSE dbMessages
          /\ inbox' = Sent(inbox, out)
          /\ emitLog' = emitLog \o out
    /\ UNCHANGED <<sockState, connectedDevices, dbDevices, sweep, posts, button, clientVars,
                   now, nextId, regVars>>

\* ---------------------------------------------------------- stop-emergency
\* server.js:163-170
StopMessage(deviceId) ==
    [id |-> nextId, text |-> "Emergency alert stopped by " \o deviceId, timestamp |-> now,
     channel |-> "emergency-control", source |-> deviceId, type |-> "normal"]

\* server.js:161-172: build the message, start insertOne
StopEmergency(s, deviceId) ==
    /\ sockState[s] = "connected"
    /\ nextId <= MaxSends
    /\ nextId' = nextId + 1
    /\ tasks' = tasks \cup {Task("stop-emergency", s, WithObjectId(StopMessage(deviceId), nextId), NoDev)}
    /\ UNCHANGED <<sockState, connectedDevices, dbDevices, dbMessages, sweep, posts, button,
                   inbox, emitLog, clientVars, now, regVars>>

EmitEmergencyStoppedIfActive(msg) ==
    IF AlertEmitted
    THEN <<IoEmit("emergency-stopped", [deviceId |-> msg.source, message |-> msg])>>
    ELSE <<>>
\* server.js:173
EmitEmergencyStopped(msg) ==
    <<IoEmit("emergency-stopped", [deviceId |-> msg.source, message |-> msg])>>

\* server.js:172-178: insertOne settles; a failure is only logged
StopEmergencyDone(t, ok) ==
    /\ t \in tasks
    /\ t.op = "stop-emergency"
    /\ tasks' = tasks \ {t}
    /\ LET out == IF ok THEN EmitEmergencyStopped(t.msg) ELSE <<>>
       IN /\ dbMessages' = IF ok THEN Append(dbMessages, t.msg) ELSE dbMessages
          /\ inbox' = Sent(inbox, out)
          /\ emitLog' = emitLog \o out
    /\ UNCHANGED <<sockState, connectedDevices, dbDevices, sweep, posts, button, clientVars,
                   now, nextId, regVars>>

\* --------------------------------------------------------- register-device
\* server.js:75-80: the payload, then socketId, lastSeen and status over it
NewDevice(s, info) == [socketId |-> s, lastSeen |-> now, status |-> "online"] @@ info

\* useWebSocket.ts:179-184 and server.js:73-88: the client notes its device id
\* and sends the command; the handler sets the Map entry and starts the upsert
RegisterDevice(s, info) ==
    /\ sockState[s] = "connected"
    /\ nRegs < MaxRegisters
    /\ LET device == NewDevice(s, info)
           t == Task("register-device", s, NoMsg, device)
       IN /\ t \notin tasks
          /\ connectedDevices' = MapSet(connectedDevices, device.id, device)
          /\ tasks' = tasks \cup {t}
          /\ lastReg' = [lastReg EXCEPT ![info.id] =
                            <<[socket |-> s, info |-> info, at |-> now, n |-> nRegs + 1,
                               k |-> IF lastReg[info.id] = <<>> THEN 1
                                     ELSE lastReg[info.id][1].k + 1]>>]
    /\ deviceIdRef' = [deviceIdRef EXCEPT ![s] = info.id]
    /\ nRegs' = nRegs + 1
    /\ UNCHANGED <<sockState, dbDevices, dbMessages, sweep, posts, button, inbox, emitLog,
                   emergencyAlert, timers, expiryLog, clientDevices, now, nextId,
                   nBeats, evictLog>>

\* server.js:101-104
RegisterFailed(s) == SocketEmit(s, "error", "Failed to register device")

\* server.js:86-104: the upsert settles; on success the snapshot to the socket
\* and device-connected to the others, on failure the error
RegisterDone(t, ok) ==
    /\ t \in tasks
    /\ t.op = "register-device"
    /\ tasks' = tasks \ {t}
    /\ LET out == IF ok
                  THEN <<SocketEmit(t.socket, "connected-devices", connectedDevices),
                         BroadcastEmit(t.socket, "device-connected", t.dev)>>
                  ELSE <<RegisterFailed(t.socket)>>
       IN /\ dbDevices' = IF ok THEN DbUpsert(dbDevices, t.dev.id, t.dev) ELSE dbDevices
          /\ inbox' = Sent(inbox, out)
          /\ emitLog' = emitLog \o out
    /\ UNCHANGED <<sockState, connectedDevices, dbMessages, sweep, posts, button, clientVars,
                   now, nextId, regVars>>

\* ---------------------------------------------------------------- heartbeat
HeartbeatRebinds(device, s) == [device EXCEPT !.lastSeen = now, !.socketId = s]
\* server.js:143
HeartbeatEntry(device, s) == [device EXCEPT !.lastSeen = now]

\* server.js:140-153: a known device gets a new lastSeen and a store update is
\* started; for an unknown id the handler does nothing
Heartbeat(s, deviceId) ==
    /\ sockState[s] = "connected"
    /\ nBeats < MaxHeartbeats
    /\ nBeats' = nBeats + 1
    /\ IF MapHas(connectedDevices, deviceId)
       THEN LET device == HeartbeatEntry(MapGet(connectedDevices, deviceId), s)
                t == Task("heartbeat", s, NoMsg, [id |-> deviceId])
            IN /\ t \notin tasks
               /\ connectedDevices' = MapSet(connectedDevices, deviceId, device)
               /\ tasks' = tasks \cup {t}
       ELSE UNCHANGED <<connectedDevices, tasks>>
    /\ UNCHANGED <<sockState, dbDevices, dbMessages, sweep, posts, button, inbox, emitLog,
                   clientVars, now, nextId, nRegs, lastReg, evictLog>>

\* server.js:147-156: the update settles; a failure is only logged
HeartbeatDone(t, ok) ==
    /\ t \in tasks
    /\ t.op = "heartbeat"
    /\ tasks' = tasks \ {t}
    /\ dbDevices' = IF ok
                    THEN DbUpdate(dbDevices, t.dev.id, [lastSeen |-> now, status |-> "online"])
                    ELSE dbDevices
    /\ UNCHANGED <<sockState, connectedDevices, dbMessages, sweep, posts, button, inbox, emitLog,
                   clientVars, now, nextId, regVars>>

\* ---------------------------------------------------------------- disconnect
Offline == [status |-> "offline", lastSeen |-> now]

\* server.js:194-210: the update settles; on success device-disconnected to
\* the other sockets, a failure is only logged
DisconnectDone(t, ok) ==
    /\ t \in tasks
    /\ t.op = "disconnect"
    /\ tasks' = tasks \ {t}
    /\ LET out == IF ok THEN <<BroadcastEmit(t.socket, "device-disconnected", t.dev.id)>>
                  ELSE <<>>
       IN /\ dbDevices' = IF ok THEN DbUpdate(dbDevices, t.dev.id, Offline) ELSE dbDevices
          /\ inbox' = Sent(inbox, out)
          /\ emitLog' = emitLog \o out
    /\ UNCHANGED <<sockState, connectedDevices, dbMessages, sweep, posts, button, clientVars,
                   now, nextId, regVars>>

\* ------------------------------------------------------- the cleanup sweep
StaleSinceRegister(device, snow) == snow - lastReg[device.id][1].at > inactiveThreshold
\* server.js:220
Stale(device, snow) == snow - device.lastSeen > inactiveThreshold

RECURSIVE FirstStale(_, _, _)
\* the next entry after the cursor that the loop finds stale, 0 when none
FirstStale(devs, idx, snow) ==
    IF idx >= Len(devs) THEN 0
    ELSE IF Stale(devs[idx + 1], snow) THEN idx + 1
    ELSE FirstStale(devs, idx + 1, snow)

SweepIdle == [pc |-> "idle", now |-> 0, idx |-> 0, deviceId |-> Undefined]

\* server.js:219-229: the loop runs from the cursor to the next stale entry,
\* deletes it and starts its store update, or runs off the end of the Map
SweepRun(idx, snow) ==
    LET p == FirstStale(connectedDevices, idx, snow) IN
    IF p = 0
    THEN /\ sweep' = SweepIdle
         /\ UNCHANGED <<connectedDevices, evictLog>>
    ELSE /\ connectedDevices' = RemoveAt(connectedDevices, p)
         /\ sweep' = [pc |-> "await", now |-> snow, idx |-> p - 1,
                      deviceId |-> connectedDevices[p].id]
         /\ evictLog' = Append(evictLog, [id |-> connectedDevices[p].id,
                                          lastSeen |-> connectedDevices[p].lastSeen,
                                          now |-> snow])

\* server.js:215-217: the interval fires (one pass at a time)
SweepStart ==
    /\ sweep.pc = "idle"
    /\ SweepRun(0, now)
    /\ UNCHANGED <<sockState, dbDevices, dbMessages, tasks, posts, button, inbox, emitLog,
                   clientVars, now, nextId, nRegs, nBeats, lastReg>>

\* server.js:223-235: the update settles; on success device-disconnected to
\* everyone, a failure is only logged; then the loop goes on
SweepResume(ok) ==
    /\ sweep.pc = "await"
    /\ LET out == IF ok THEN <<IoEmit("device-disconnected", sweep.deviceId)>> ELSE <<>>
       IN /\ dbDevices' = IF ok THEN DbUpdate(dbDevices, sweep.deviceId, Offline)
                                ELSE dbDevices
          /\ inbox' = Sent(inbox, out)
          /\ emitLog' = emitLog \o out
    /\ SweepRun(sweep.idx, sweep.now)
    /\ UNCHANGED <<sockState, dbMessages, tasks, posts, button, clientVars, now, nextId,
                   nRegs, nBeats, lastReg>>

\* ------------------------------------------------- the client (useWebSocket)
Next1(s) == Head(inbox[s])

Handles(s, name) ==
    /\ sockState[s] = "connected"
    /\ inbox[s] # <<>>
    /\ Next1(s).name = name
    /\ inbox' = [inbox EXCEPT ![s] = Tail(inbox[s])]

\* useWebSocket.ts:119-125 (the message list is not part of the model)
OnNewMessage(s) ==
    /\ Handles(s, "new-message")
    /\ UNCHANGED <<sockState, serverVars, posts, button, emitLog, clientVars, now, nextId, regVars>>

\* useWebSocket.ts:132-134: setTimeout(..., 120000)
AutoClearShort(at) == [at |-> at, deadline |-> at + TimeUnit]
AutoClear(at) == [at |-> at, deadline |-> at + AlertWindow]

\* useWebSocket.ts:127-135
OnEmergencyAlert(s) ==
    /\ Handles(s, "emergency-alert")
    /\ emergencyAlert' = [emergencyAlert EXCEPT ![s] = <<Next1(s).arg>>]
    /\ timers' = [timers EXCEPT ![s] = @ \cup {[id |-> Next1(s).arg.id] @@ AutoClear(now)}]
    /\ UNCHANGED <<sockState, serverVars, posts, button, emitLog, expiryLog, clientDevices,
                   deviceIdRef, now, nextId, regVars>>

\* useWebSocket.ts:137-141
OnEmergencyStopped(s) ==
    /\ Handles(s, "emergency-stopped")
    /\ emergencyAlert' = [emergencyAlert EXCEPT ![s] = <<>>]
    /\ UNCHANGED <<sockState, serverVars, posts, button, emitLog, timers, expiryLog, clientDevices,
                   deviceIdRef, now, nextId, regVars>>

\* useWebSocket.ts:143-145
OnError(s) ==
    /\ Handles(s, "error")
    /\ UNCHANGED <<sockState, serverVars, posts, button, emitLog, clientVars, now, nextId, regVars>>

\* useWebSocket.ts:101-104
OnConnectedDevices(s) ==
    /\ Handles(s, "connected-devices")
    /\ clientDevices' = [clientDevices EXCEPT ![s] = Next1(s).arg]
    /\ UNCHANGED <<sockState, serverVars, posts, button, emitLog, emergencyAlert, timers,
                   expiryLog, deviceIdRef, now, nextId, regVars>>

\* useWebSocket.ts:106-112
OnDeviceConnected(s) ==
    /\ Handles(s, "device-connected")
    /\ clientDevices' = [clientDevices EXCEPT ![s] =
            Append(SelectSeq(@, LAMBDA d : d.id # Next1(s).arg.id), Next1(s).arg)]
    /\ UNCHANGED <<sockState, serverVars, posts, button, emitLog, emergencyAlert, timers,
                   expiryLog, deviceIdRef, now, nextId, regVars>>

\* useWebSocket.ts:114-117
OnDeviceDisconnected(s) ==
    /\ Handles(s, "device-disconnected")
    /\ clientDevices' = [clientDevices EXCEPT ![s] =
            SelectSeq(@, LAMBDA d : d.id # Next1(s).arg)]
    /\ UNCHANGED <<sockState, serverVars, posts, button, emitLog, emergencyAlert, timers,
                   expiryLog, deviceIdRef, now, nextId, regVars>>

\* useWebSocket.ts:132-134: the timeout's callback; a timeout fires once
TimerFire(s) ==
    /\ sockState[s] = "connected"
    /\ \E t \in timers[s] :
          /\ now >= t.deadline
          /\ timers' = [timers EXCEPT ![s] = @ \ {t}]
          /\ expiryLog' = Append(expiryLog, [socket |-> s, id |-> t.id, set |-> t.at,
                                              at |-> now, was |-> emergencyAlert[s]])
    /\ emergencyAlert' = [emergencyAlert EXCEPT ![s] = <<>>]
    /\ UNCHANGED <<sockState, serverVars, posts, button, inbox, emitLog, clientDevices,
                   deviceIdRef, now, nextId, regVars>>

\* useWebSocket.ts:204-210; the STOP ALERT button exists only while the alert shows
\* (EmergencyAlert.tsx:97)
clearEmergencyAlert(s) ==
    /\ sockState[s] = "connected"
    /\ emergencyAlert[s] # <<>>
    /\ emergencyAlert' = [emergencyAlert EXCEPT ![s] = <<>>]
    /\ IF deviceIdRef[s] # Undefined
       THEN /\ nextId <= MaxSends
            /\ nextId' = nextId + 1
            /\ tasks' = tasks \cup {Task("stop-emergency", s, WithObjectId(StopMessage(deviceIdRef[s]), nextId), NoDev)}
       ELSE UNCHANGED <<nextId, tasks>>
    /\ UNCHANGED <<sockState, connectedDevices, dbDevices, dbMessages, sweep, posts, button, inbox,
                   emitLog, timers, expiryLog, clientDevices, deviceIdRef, now, regVars>>

\* ---------------------------------------------------------------- the clock
TimerDue == \E s \in Sockets : \E t \in timers[s] : now >= t.deadline

\* ------------------------------------------------- POST /api/messages
Requests == 1..MaxPosts

\* bodies of POST /api/messages: padded text, with a client timestamp and a type,
\* empty text, the handheld page's (handheld/page.tsx:72-78), blank text
PostInputs ==
    { [text |-> " Hello ", source |-> "MCR"],
      [text |-> "Assistance required in engine room", source |-> "HANDHELD", type |-> "received"],
      [text |-> " ", source |-> "MCR", type |-> "normal"],
      [text |-> "HELP", source |-> "HANDHELD", type |-> "emergency", channel |-> "emergency-broadcast",
       timestamp |-> TimeUnit],
      [text |-> "", source |-> "MCR"] }

NewRequest == [pc |-> "new", message |-> NoMsg, count |-> 0, oldIds |-> {}, status |-> 0]

\* the ids generated for request r: distinct from each other and from the socket path's
PostId(r) == MaxSends + r

\* route.ts:56: !messageData.text || !messageData.source
Invalid(data) == ~Truthy(data, "text") \/ ~Truthy(data, "source")

\* String.prototype.trim, on the texts of PostInputs
Trim(text) ==
    CASE text = " Hello " -> "Hello"
      [] text = " " -> ""
      [] OTHER -> text

\* route.ts:66-74
PostMessage(r, data) ==
    [id |-> PostId(r),
     text |-> Trim(data.text),
     timestamp |-> IF Has(data, "timestamp") /\ data.timestamp # 0 THEN data.timestamp ELSE now,
     channel |-> IF Truthy(data, "channel") THEN data.channel ELSE "broadcast",
     source |-> data.source,
     type |-> IF Truthy(data, "type") THEN data.type ELSE "normal"]
    @@ (IF Has(data, "deviceId") THEN [deviceId |-> data.deviceId] ELSE <<>>)

\* a request ends with a response
Respond(r, status) == [posts EXCEPT ![r].pc = "done", ![r].status = status]

\* route.ts:51-77: parse, validate (400), build the message, start insertOne
PostStart(r, data) ==
    /\ posts[r].pc = "new"
    /\ \A q \in Requests : q < r => posts[q].pc # "new"
    /\ posts' = IF Invalid(data)
                THEN Respond(r, 400)
                ELSE [posts EXCEPT ![r].pc = "insert",
                                   ![r].message = WithObjectId(PostMessage(r, data), PostId(r))]
    /\ UNCHANGED <<button, sockState, serverVars, inbox, emitLog, clientVars, now, nextId, regVars>>

\* route.ts:77-80: insertOne settles, start countDocuments; a rejection is the 500 of 97-106
PostInsert(r, ok) ==
    /\ posts[r].pc = "insert"
    /\ dbMessages' = IF ok THEN Append(dbMessages, posts[r].message) ELSE dbMessages
    /\ posts' = IF ok THEN [posts EXCEPT ![r].pc = "count"] ELSE Respond(r, 500)
    /\ UNCHANGED <<button, sockState, connectedDevices, dbDevices, tasks, sweep, inbox, emitLog,
                   clientVars, now, nextId, regVars>>

\* route.ts:80-86: countDocuments settles; above the cap start find, otherwise 200
PostCount(r, ok) ==
    /\ posts[r].pc = "count"
    /\ posts' = IF ~ok THEN Respond(r, 500)
                ELSE IF Len(dbMessages) > RetentionCap
                THEN [posts EXCEPT ![r].pc = "find", ![r].count = Len(dbMessages)]
                ELSE Respond(r, 200)
    /\ UNCHANGED <<button, sockState, serverVars, inbox, emitLog, clientVars, now, nextId, regVars>>

ObjectIds(db) == {db[k]._id : k \in DOMAIN db}

\* find({}).sort({timestamp: 1}).limit(n): n documents none of which is younger
\* than one left out; the order among equal timestamps is the store's choice
Oldest(db, n) ==
    {S \in SUBSET ObjectIds(db) :
        /\ Cardinality(S) = IF n < Len(db) THEN n ELSE Len(db)
        /\ \A k, l \in DOMAIN db :
              db[k]._id \in S /\ db[l]._id \notin S => db[k].timestamp <= db[l].timestamp}

\* route.ts:82-90: find settles, map to _id, start deleteMany
PostFind(r, ok) ==
    /\ posts[r].pc = "find"
    /\ IF ok
       THEN \E S \in Oldest(dbMessages, posts[r].count - RetentionCap) :
                posts' = [posts EXCEPT ![r].pc = "delete", ![r].oldIds = S]
       ELSE posts' = Respond(r, 500)
    /\ UNCHANGED <<button, sockState, serverVars, inbox, emitLog, clientVars, now, nextId, regVars>>

\* deleteMany({_id: {$in: oldIds}})
DeleteMany(db, oldIds) == SelectSeq(db, LAMBDA doc : doc._id \notin oldIds)

\* route.ts:90-96: deleteMany settles, 200
PostDelete(r, ok) ==
    /\ posts[r].pc = "delete"
    /\ dbMessages' = IF ok THEN DeleteMany(dbMessages, posts[r].oldIds) ELSE dbMessages
    /\ posts' = Respond(r, IF ok THEN 200 ELSE 500)
    /\ UNCHANGED <<button, sockState, connectedDevices, dbDevices, tasks, sweep, inbox, emitLog,
                   clientVars, now, nextId, regVars>>

\* no handler is suspended on a store call
\* ------------------------------------- the emergency control (EmergencyButton)
\* the step of the control's clock: half a countdown period, so that a click
\* can fall between two firings of an interval
ButtonStep == IntervalMs \div 2

\* EmergencyButton.tsx:13-14, before any click.  timers: the live intervals,
\* each with the time of its next firing; arms, armedAt, activations: history
ButtonInit ==
    [isArmed |-> FALSE, countdown |-> 0, timers |-> <<>>, clock |-> 0,
     arms |-> 0, armedAt |-> 0, activations |-> 0]

\* everything but the control
systemVars == <<sockState, serverVars, posts, inbox, emitLog, clientVars, now, nextId, regVars>>

\* EmergencyButton.tsx:16-30; the ARM button is rendered only while not armed (56-71)
handleArmEmergency ==
    /\ ~button.isArmed
    /\ button.arms < MaxArms
    /\ button' = [button EXCEPT !.isArmed = TRUE,
                                !.countdown = ArmCount,
                                !.timers = Append(@, button.clock + IntervalMs),
                                !.arms = @ + 1,
                                !.armedAt = button.clock]
    /\ UNCHANGED systemVars

\* EmergencyButton.tsx:32-38 and part_001:60-69: onEmergencyActivate sends the
\* emergency message; the countdown interval is left running
handleEmergencyActivate ==
    /\ button' = IF button.isArmed
                 THEN [button EXCEPT !.activations = @ + 1,
                                     !.isArmed = FALSE,
                                     !.countdown = 0]
                 ELSE button
    /\ UNCHANGED systemVars

\* EmergencyButton.tsx:40-43; CANCEL is rendered only while armed (72-97); the
\* countdown interval is left running
handleCancel ==
    /\ button.isArmed
    /\ button' = [button EXCEPT !.isArmed = FALSE, !.countdown = 0]
    /\ UNCHANGED systemVars

\* clearInterval(timer)
ClearInterval(ts, i) == [k \in 1..(Len(ts) - 1) |-> IF k < i THEN ts[k] ELSE ts[k + 1]]

\* EmergencyButton.tsx:20-29: interval i fires; intervals due at the same
\* time fire in the order they were set
IntervalFire(i) ==
    /\ i \in DOMAIN button.timers
    /\ button.timers[i] = button.clock
    /\ \A k \in DOMAIN button.timers : k < i => button.timers[k] # button.clock
    /\ button' = IF button.countdown <= 1
                 THEN [button EXCEPT !.timers = ClearInterval(@, i),
                                     !.isArmed = FALSE,
                                     !.countdown = 0]
                 ELSE [button EXCEPT !.timers[i] = button.clock + IntervalMs,
                                     !.countdown = @ - 1]
    /\ UNCHANGED systemVars

IntervalDue == \E i \in DOMAIN button.timers : button.timers[i] = button.clock

\* the control's clock moves on when no interval is due
ButtonTick ==
    /\ ~IntervalDue
    /\ button.clock < MaxButtonMs
    /\ button' = [button EXCEPT !.clock = @ + ButtonStep]
    /\ UNCHANGED systemVars

Settled == tasks = {} /\ sweep.pc = "idle"

\* One step of the clock.  A due timeout runs before the clock moves on, and a
\* pending store call settles within the step it was started in.
Tick ==
    /\ now < MaxTicks * TimeUnit
    /\ ~TimerDue
    /\ Settled
    /\ now' = now + TimeUnit
    /\ UNCHANGED <<sockState, serverVars, posts, button, inbox, emitLog, clientVars, nextId, regVars>>

\* ------------------------------------------------------------------- Init
Init ==
    /\ sockState = [s \in Sockets |-> "new"]
    /\ connectedDevices = <<>>
    /\ dbDevices = [d \in DeviceIds |-> <<>>]
    /\ dbMessages = <<>>
    /\ tasks = {}
    /\ sweep = SweepIdle
    /\ posts = [r \in Requests |-> NewRequest]
    /\ inbox = [s \in Sockets |-> <<>>]
    /\ emitLog = <<>>
    /\ emergencyAlert = [s \in Sockets |-> <<>>]
    /\ timers = [s \in Sockets |-> {}]
    /\ expiryLog = <<>>
    /\ clientDevices = [s \in Sockets |-> <<>>]
    /\ deviceIdRef = [s \in Sockets |-> Undefined]
    /\ now = 0
    /\ nextId = 1
    /\ nRegs = 0
    /\ nBeats = 0
    /\ lastReg = [d \in DeviceIds |-> <<>>]
    /\ evictLog = <<>>
    /\ button = ButtonInit

\* ----------------------------------- messages and the alert: SpecAlert
NextAlert ==
    \/ \E s \in Sockets : Connect(s)
    \/ \E s \in Sockets : Disconnect(s)
    \/ \E s \in Sockets : \E data \in MessageInputs : SendMessage(s, data)
    \/ \E t \in tasks : \E ok \in BOOLEAN : SendMessageDone(t, ok)
    \/ \E s \in Sockets : \E d \in DeviceIds : StopEmergency(s, d)
    \/ \E t \in tasks : \E ok \in BOOLEAN : StopEmergencyDone(t, ok)
    \/ \E s \in Sockets : OnNewMessage(s)
    \/ \E s \in Sockets : OnEmergencyAlert(s)
    \/ \E s \in Sockets : OnEmergencyStopped(s)
    \/ \E s \in Sockets : OnError(s)
    \/ \E s \in Sockets : TimerFire(s)
    \/ \E s \in Sockets : clearEmergencyAlert(s)
    \/ Tick

SpecAlert == Init /\ [][NextAlert]_vars

\* ------------------------------------------- the registry: SpecRegistry
NextRegistry ==
    \/ \E s \in Sockets : Connect(s)
    \/ \E s \in Sockets : Disconnect(s)
    \/ \E t \in tasks : \E ok \in BOOLEAN : DisconnectDone(t, ok)
    \/ \E s \in Sockets : \E info \in DeviceInputs : RegisterDevice(s, info)
    \/ \E t \in tasks : \E ok \in BOOLEAN : RegisterDone(t, ok)
    \/ \E s \in Sockets : \E d \in DeviceIds : Heartbeat(s, d)
    \/ \E t \in tasks : \E ok \in BOOLEAN : HeartbeatDone(t, ok)
    \/ SweepStart
    \/ \E ok \in BOOLEAN : SweepResume(ok)
    \/ Tick

SpecRegistry == Init /\ [][NextRegistry]_vars

\* ------------------------------- presence as the clients see it: SpecPresence
\* register-device payloads that lack a name and give an unknown type
BadDeviceInputs == { [id |-> "MCR", type |-> "toaster"] }

NextPresence ==
    \/ \E s \in Sockets : Connect(s)
    \/ \E s \in Sockets : Disconnect(s)
    \/ \E t \in tasks : \E ok \in BOOLEAN : DisconnectDone(t, ok)
    \/ \E s \in Sockets : \E info \in DeviceInputs \cup BadDeviceInputs : RegisterDevice(s, info)
    \/ \E t \in tasks : \E ok \in BOOLEAN : RegisterDone(t, ok)
    \/ \E s \in Sockets : OnConnectedDevices(s)
    \/ \E s \in Sockets : OnDeviceConnected(s)
    \/ \E s \in Sockets : OnDeviceDisconnected(s)
    \/ \E s \in Sockets : OnError(s)

SpecPresence == Init /\ [][NextPresence]_vars

\* ------------------------------------------- the message store: SpecStore
\* the store runs publish well-formed normal messages over the socket
StoreInputs == {data \in MessageInputs : Truthy(data, "text") /\ Has(data, "type") /\ data.type = "normal"}

NextStore ==
    \/ \E s \in Sockets : Connect(s)
    \/ \E s \in Sockets : \E data \in StoreInputs : SendMessage(s, data)
    \/ \E t \in tasks : \E ok \in BOOLEAN : SendMessageDone(t, ok)
    \/ \E r \in Requests : \E data \in PostInputs : PostStart(r, data)
    \/ \E r \in Requests : \E ok \in BOOLEAN : PostInsert(r, ok)
    \/ \E r \in Requests : \E ok \in BOOLEAN : PostCount(r, ok)
    \/ \E r \in Requests : \E ok \in BOOLEAN : PostFind(r, ok)
    \/ \E r \in Requests : \E ok \in BOOLEAN : PostDelete(r, ok)

SpecStore == Init /\ [][NextStore]_vars

\* ------------------------------------------- the emergency control: SpecButton
NextButton ==
    \/ handleArmEmergency
    \/ handleEmergencyActivate
    \/ handleCancel
    \/ \E i \in 1..MaxArms : IntervalFire(i)
    \/ ButtonTick

SpecButton == Init /\ [][NextButton]_vars

\* ------------------------------------------------------------- histories
Stored == {dbMessages[k] : k \in DOMAIN dbMessages}

Emissions(name, arg) ==
    {i \in DOMAIN emitLog : emitLog[i].name = name /\ emitLog[i].arg = arg}

NumEmitted(name) == Cardinality({i \in DOMAIN emitLog : emitLog[i].name = name})

\* --------------------------------------------------- claims, SpecRegistry
\* the entry carries what the command gave, on the command's socket
FromCommand(d, c) ==
    /\ d.status = "online"
    /\ d.socketId = c.socket
    /\ d.name = c.info.name
    /\ d.type = c.info.type
    /\ Has(d, "language") = Has(c.info, "language")
    /\ Has(d, "language") => d.language = c.info.language

\* C4: the registry never holds two entries with one id; every entry is online
\* and carries the name, type, language and socket of the latest register-device
\* for its id; and right after a register-device the entry for its id is there.
C4_OneEntryLatestRegister ==
    /\ [](/\ \A i, j \in DOMAIN connectedDevices :
                connectedDevices[i].id = connectedDevices[j].id => i = j
          /\ \A i \in DOMAIN connectedDevices :
                /\ lastReg[connectedDevices[i].id] # <<>>
                /\ FromCommand(connectedDevices[i], lastReg[connectedDevices[i].id][1]))
    /\ [][nRegs' = nRegs + 1 =>
            \E id \in DeviceIds :
                /\ lastReg'[id] # <<>>
                /\ lastReg'[id][1].n = nRegs'
                /\ MapHas(connectedDevices', id)
                /\ MapGet(connectedDevices', id).lastSeen = now]_vars

\* C4 witness: the id was registered on one socket, whose document is in the
\* store, and then again on another socket under another name; the one entry
\* shows the second.
C4_Witness ==
    /\ Len(connectedDevices) = 1
    /\ dbDevices[connectedDevices[1].id] # <<>>
    /\ dbDevices[connectedDevices[1].id][1].socketId # connectedDevices[1].socketId
    /\ dbDevices[connectedDevices[1].id][1].name # connectedDevices[1].name
    /\ lastReg[connectedDevices[1].id][1].n = 2

\* C9: a heartbeat step emits nothing, adds and removes no entry, and changes
\* at most one entry, the one for its device id, in lastSeen only.
C9_HeartbeatFrame ==
    [][nBeats' = nBeats + 1 =>
         /\ emitLog' = emitLog
         /\ inbox' = inbox
         /\ Len(connectedDevices') = Len(connectedDevices)
         /\ \A i \in DOMAIN connectedDevices :
               \/ connectedDevices'[i] = connectedDevices[i]
               \/ /\ connectedDevices'[i] = [connectedDevices[i] EXCEPT !.lastSeen = now]
                  /\ \E t \in tasks' :
                        t.op = "heartbeat" /\ t.dev.id = connectedDevices[i].id
                  /\ \A j \in DOMAIN connectedDevices :
                        j # i => connectedDevices'[j] = connectedDevices[j]]_vars

\* C9 witness: a heartbeat was handled although no device was ever registered,
\* and there is no entry, no event and no pending store call.
C9_Witness ==
    /\ nBeats > 0
    /\ nRegs = 0
    /\ connectedDevices = <<>>
    /\ emitLog = <<>>
    /\ tasks = {}

\* the sweep deleted the entry that the latest register-device for id made
EvictedSince(id) ==
    \E i \in DOMAIN evictLog :
        evictLog[i].id = id /\ evictLog[i].lastSeen >= lastReg[id][1].at

C12_NoneBoundAfterClose ==
    \A s \in Sockets :
        sockState[s] = "closed" =>
            \A i \in DOMAIN connectedDevices : connectedDevices[i].socketId # s

\* C15 as stated: a device that was registered keeps its registry record, and
\* once the socket that registered it last has closed and its handler has
\* finished, the record is offline, without socket, and mirrored in the store.
C15_KeptOffline ==
    \A id \in DeviceIds :
        lastReg[id] # <<>> =>
            /\ MapHas(connectedDevices, id)
            /\ (sockState[lastReg[id][1].socket] = "closed" /\ Settled) =>
                  /\ MapGet(connectedDevices, id).status = "offline"
                  /\ ~Has(MapGet(connectedDevices, id), "socketId")
                  /\ dbDevices[id] # <<>>
                  /\ dbDevices[id][1].status = "offline"

\* the events a step emitted
NewEmissions == {i \in DOMAIN emitLog' : i > Len(emitLog)}

\* C18 as stated: when a register-device handler finishes without an error
\* event, its socket, if still connected, is sent a connected-devices snapshot
\* equal to the registry of that moment, in which its device is, and the other
\* connected sockets are sent device-connected with the device.
C18_SnapshotOnRegister ==
    [][\A t \in tasks :
          (/\ t.op = "register-device"
           /\ t \notin tasks'
           /\ \A i \in NewEmissions : emitLog'[i].name # "error")
          => /\ \E i \in NewEmissions :
                  /\ emitLog'[i].name = "connected-devices"
                  /\ emitLog'[i].to = {t.socket} \cap Connected
                  /\ emitLog'[i].arg = connectedDevices
                  /\ emitLog'[i].to # {} => MapHas(emitLog'[i].arg, t.dev.id)
             /\ \E i \in NewEmissions :
                  /\ emitLog'[i].name = "device-connected"
                  /\ emitLog'[i].to = Connected \ {t.socket}
                  /\ emitLog'[i].arg = t.dev]_vars

NumEvictions(id) == Cardinality({i \in DOMAIN evictLog : evictLog[i].id = id})

\* C20 as stated: once no handler is suspended, every registry entry was
\* announced by a device-connected event for its registration, and every
\* sweep eviction by a device-disconnected event.
C20_ChangeNotified ==
    Settled =>
        /\ \A i \in DOMAIN connectedDevices :
              \E j \in DOMAIN emitLog :
                  /\ emitLog[j].name = "device-connected"
                  /\ emitLog[j].arg.id = connectedDevices[i].id
                  /\ emitLog[j].arg.socketId = connectedDevices[i].socketId
        /\ \A id \in DeviceIds :
              NumEvictions(id) <= Cardinality(Emissions("device-disconnected", id))

\* C21: every eviction is decided on the lastSeen the entry has at the step of
\* the decision, and that lastSeen is older than the threshold at the pass's
\* now; a device whose heartbeat was handled before its decision, also while
\* the pass was suspended on another device's store update, is not evicted.
C21_DecidesAtDecisionTime ==
    [][Len(evictLog') > Len(evictLog) =>
          LET e == evictLog'[Len(evictLog')] IN
          /\ Len(evictLog') = Len(evictLog) + 1
          /\ MapHas(connectedDevices, e.id)
          /\ MapGet(connectedDevices, e.id).lastSeen = e.lastSeen
          /\ e.now - e.lastSeen > inactiveThreshold
          /\ ~MapHas(connectedDevices', e.id)]_vars

\* C21 witness: the pass is suspended on the store update of another device;
\* a device it has not reached yet, stale by its registration, has had its
\* heartbeat handled and is no longer stale at the pass's now.
C21_Witness ==
    /\ sweep.pc = "await"
    /\ \E t \in tasks :
          /\ t.op = "heartbeat"
          /\ t.dev.id # sweep.deviceId
          /\ MapHas(connectedDevices, t.dev.id)
          /\ IndexOf(connectedDevices, t.dev.id) > sweep.idx
          /\ sweep.now - lastReg[t.dev.id][1].at > inactiveThreshold
          /\ ~Stale(MapGet(connectedDevices, t.dev.id), sweep.now)

\* C24 as stated, for the devices in the registry: once no handler is
\* suspended, a registry entry whose registration reached the store (the
\* document carries the entry's socket) is stored with status online.
C24_StoreMirrors ==
    Settled =>
        \A k \in DOMAIN connectedDevices :
            LET d == connectedDevices[k] IN
            (dbDevices[d.id] # <<>> /\ dbDevices[d.id][1].socketId = d.socketId)
            => dbDevices[d.id][1].status = "online"

\* C10 as stated: the sweep deletes only devices older than the threshold at
\* its now, and once the pass is over a device-disconnected was emitted for
\* every device it deleted.
C10_SweepNotifies ==
    /\ \A i \in DOMAIN evictLog :
          evictLog[i].now - evictLog[i].lastSeen > inactiveThreshold
    /\ sweep.pc = "idle" =>
          \A id \in DeviceIds :
              NumEvictions(id) <= Cardinality(Emissions("device-disconnected", id))

\* register-device commands processed so far for the device id
NumRegistered(id) == IF lastReg[id] = <<>> THEN 0 ELSE lastReg[id][1].k

\* C29: for every device id, the device-disconnected events emitted for it
\* are never more than the register-device commands processed for it.
C29_DepartureOnce ==
    \A id \in DeviceIds :
        Cardinality(Emissions("device-disconnected", id)) <= NumRegistered(id)

\* C29 witness: a device was registered twice and left twice, once evicted by
\* the sweep and once by the close of its session, and both departures were
\* announced.
C29_Witness ==
    \E id \in DeviceIds :
        /\ NumRegistered(id) = 2
        /\ Cardinality(Emissions("device-disconnected", id)) = 2
        /\ \E i \in DOMAIN evictLog : evictLog[i].id = id
        /\ sockState[lastReg[id][1].socket] = "closed"

\* --------------------------------------------------- claims, SpecPresence
DeviceTypes == {"mcr", "engine", "remote", "handheld"}

\* a device with a name and one of the four types
WellFormed(d) == Truthy(d, "id") /\ Truthy(d, "name") /\ Has(d, "type") /\ d.type \in DeviceTypes

\* C13 as stated: no registry entry, no device-connected event and no
\* connected-devices snapshot carries a device without name or with an unknown
\* type.
C13_InvalidRejected ==
    /\ \A i \in DOMAIN connectedDevices : WellFormed(connectedDevices[i])
    /\ \A i \in DOMAIN emitLog :
          /\ emitLog[i].name = "device-connected" => WellFormed(emitLog[i].arg)
          /\ emitLog[i].name = "connected-devices" =>
                \A k \in DOMAIN emitLog[i].arg : WellFormed(emitLog[i].arg[k])

Ids(devs) == {devs[i].id : i \in DOMAIN devs}

\* C23 as stated, for the device a session registered itself: once no handler
\* is suspended, every event is handled and no register-device has failed, a
\* connected session lists every registry entry that is bound to it.
C23_ClientAgrees ==
    (/\ tasks = {}
     /\ \A s \in Sockets : inbox[s] = <<>>
     /\ \A i \in DOMAIN emitLog : emitLog[i].name # "error")
    => \A s \in Connected :
          \A k \in DOMAIN connectedDevices :
              connectedDevices[k].socketId = s
              => connectedDevices[k].id \in Ids(clientDevices[s])

\* ------------------------------------------------------ claims, SpecStore
\* C14 as stated: every stored message has a non-empty text, a non-empty
\* source and the type normal or emergency.
C14_StoredWellFormed ==
    \A m \in Stored :
        /\ Truthy(m, "text")
        /\ Truthy(m, "source")
        /\ Has(m, "type") /\ m.type \in {"normal", "emergency"}

\* C25 as stated: once the store holds as many messages as the cap, no step
\* takes it below the cap.
C25_NeverBelowCap ==
    [][Len(dbMessages) >= RetentionCap => Len(dbMessages') >= RetentionCap]_vars

PostsIdle == \A r \in Requests : posts[r].pc \in {"new", "done"}

\* C8 as stated: once every publish has finished, the store holds no more
\* messages than the retention cap.
C8_CapHolds == (PostsIdle /\ tasks = {}) => Len(dbMessages) <= RetentionCap

\* ------------------------------------------------------ claims, SpecAlert
\* every connected session shows an active alert
AllActive == Connected # {} /\ \A s \in Connected : emergencyAlert[s] # <<>>

C2_DeliveredToAll ==
    [][\A t \in tasks :
          (t.op = "send-message" /\ t \notin tasks' /\ Len(dbMessages') = Len(dbMessages) + 1)
          => \A s \in Connected :
                \E i \in DOMAIN inbox'[s] :
                    /\ i > Len(inbox[s])
                    /\ inbox'[s][i].name = "new-message"
                    /\ inbox'[s][i].arg = t.msg]_vars

\* C2 witness: a message on a directional channel went to every socket, none of
\* which has registered a device.
C2_Witness ==
    \E i \in DOMAIN emitLog :
        /\ emitLog[i].name = "new-message"
        /\ Has(emitLog[i].arg, "channel")
        /\ emitLog[i].arg.channel = "mcr-to-engine"
        /\ emitLog[i].to = Sockets
        /\ connectedDevices = <<>>

\* C3 as stated: nothing with an empty text or without a source is stored or
\* announced.
C3_Rejected ==
    /\ \A m \in Stored : Truthy(m, "text") /\ Truthy(m, "source")
    /\ \A i \in DOMAIN emitLog :
          emitLog[i].name \in {"new-message", "emergency-alert"}
          => Truthy(emitLog[i].arg, "text") /\ Truthy(emitLog[i].arg, "source")

IsStopMessage(m) == Has(m, "channel") /\ m.channel = "emergency-control"

StopEvent(m) == [deviceId |-> m.source, message |-> m]

C16_StopReachesAll ==
    [][\A t \in tasks :
          (t.op = "stop-emergency" /\ t \notin tasks')
          => \A s \in Connected :
                emergencyAlert[s] # <<>> =>
                    \E i \in DOMAIN inbox'[s] :
                        /\ i > Len(inbox[s])
                        /\ inbox'[s][i].name = "emergency-stopped"]_vars

\* C17 as stated: a step that takes a session's alert from active to idle on
\* an emergency-stopped event has that event's message in the store, and a step
\* that does so on the expiry of the timeout emits an emergency-stopped event
\* whose message is in the store.
C17_ClearedIsBroadcast ==
    [][\A s \in Sockets :
          (emergencyAlert[s] # <<>> /\ emergencyAlert'[s] = <<>> /\ sockState'[s] = "connected")
          => /\ inbox'[s] # inbox[s] =>
                  /\ Next1(s).name = "emergency-stopped"
                  /\ Next1(s).arg.message \in Stored
             /\ expiryLog' # expiryLog =>
                  \E i \in DOMAIN emitLog' :
                      /\ i > Len(emitLog)
                      /\ emitLog'[i].name = "emergency-stopped"
                      /\ emitLog'[i].arg.message \in Stored']_vars

\* C19 as stated: a session that handles emergency-stopped has no auto-clear
\* timeout pending afterwards, and a timeout that fires while an alert shows
\* is the timeout of that alert.
C19_StopCancelsTimer ==
    /\ [][\A s \in Sockets :
            (/\ inbox[s] # <<>>
             /\ Next1(s).name = "emergency-stopped"
             /\ sockState'[s] = "connected"
             /\ inbox'[s] = Tail(inbox[s]))
            => timers'[s] = {}]_vars
    /\ [](\A i \in DOMAIN expiryLog :
            expiryLog[i].was # <<>> => expiryLog[i].was[1].id = expiryLog[i].id)

\* C22 as stated: when a send-message handler finishes, whatever the outcome
\* of its store write, a new-message event with its message has gone to every
\* connected session, and an emergency-alert too when its type is emergency.
C22_DeliveredDespiteStore ==
    [][\A t \in tasks :
          (t.op = "send-message" /\ t \notin tasks')
          => /\ \E i \in NewEmissions :
                  /\ emitLog'[i].name = "new-message"
                  /\ emitLog'[i].arg = t.msg
                  /\ emitLog'[i].to = Connected
             /\ IsEmergency(t.msg) =>
                  \E i \in NewEmissions :
                      /\ emitLog'[i].name = "emergency-alert"
                      /\ emitLog'[i].arg = t.msg
                      /\ emitLog'[i].to = Connected]_vars

\* C26 as stated, for a run in which one socket only has connected: the store
\* holds that session's messages, and the new-message events carry them, in
\* the order in which the session sent them (the order of their ids).
C26_InOrderSent ==
    Cardinality({s \in Sockets : sockState[s] # "new"}) = 1 =>
        /\ \A i, j \in DOMAIN dbMessages :
              i < j => dbMessages[i].id < dbMessages[j].id
        /\ \A i, j \in DOMAIN emitLog :
              (i < j /\ emitLog[i].name = "new-message" /\ emitLog[j].name = "new-message")
              => emitLog[i].arg.id < emitLog[j].arg.id

\* C27: the step that closes a socket leaves its suspended send-message
\* handlers suspended, and when such a handler's store write then succeeds the
\* message is stored and a new-message event with it goes to every session
\* connected at that moment.
C27_DisconnectCancelsNothing ==
    /\ [][\A s \in Sockets :
            (sockState[s] = "connected" /\ sockState'[s] = "closed")
            => \A t \in tasks : (t.op = "send-message" /\ t.socket = s) => t \in tasks']_vars
    /\ [][\A t \in tasks :
            (/\ t.op = "send-message"
             /\ sockState[t.socket] = "closed"
             /\ t \notin tasks'
             /\ Len(dbMessages') = Len(dbMessages) + 1)
            => /\ dbMessages'[Len(dbMessages')] = t.msg
               /\ \E i \in NewEmissions :
                    /\ emitLog'[i].name = "new-message"
                    /\ emitLog'[i].arg = t.msg
                    /\ emitLog'[i].to = Connected
               /\ \A s \in Connected :
                    /\ inbox'[s] # <<>>
                    /\ \E k \in DOMAIN inbox'[s] :
                          k > Len(inbox[s]) /\ inbox'[s][k].name = "new-message"
                                            /\ inbox'[s][k].arg = t.msg]_vars

\* C27 witness: a socket has closed while its send-message handler is still
\* waiting on the store, the handler is still suspended, and another session
\* is connected to receive the broadcast.
C27_Witness ==
    \E t \in tasks :
        /\ t.op = "send-message"
        /\ sockState[t.socket] = "closed"
        /\ Connected \ {t.socket} # {}

\* C28: the step that finishes a send-message handler never both delivers the
\* message as new-message to a session and sends an error event to the sender;
\* and when it sends the error the message was not stored.
C28_OneOutcome ==
    [][\A t \in tasks :
          (/\ t.op = "send-message"
           /\ t \notin tasks'
           /\ \E i \in NewEmissions : emitLog'[i].name = "error" /\ emitLog'[i].to = {t.socket})
          => /\ Len(dbMessages') = Len(dbMessages)
             /\ ~\E i \in NewEmissions :
                    /\ emitLog'[i].name = "new-message"
                    /\ emitLog'[i].arg = t.msg
                    /\ emitLog'[i].to # {}]_vars

\* --------------------------------------------------- claims, SpecButton
\* C30: the control calls onEmergencyActivate only in a step that starts
\* armed; an arming never lasts longer than three countdown periods; and a
\* step in which an interval firing disarms the control comes exactly three
\* countdown periods after the arming it ends.
C30_ArmedThreeTicks ==
    /\ [](button.isArmed => button.clock - button.armedAt <= ArmCount * IntervalMs)
    /\ [][button'.activations # button.activations => button.isArmed]_vars
    /\ [][(button.isArmed /\ ~button'.isArmed /\ button'.timers # button.timers)
            => button.clock - button.armedAt = ArmCount * IntervalMs]_vars

\* --------------------------------------------------- claims, SpecAlert (end)
Quiet == tasks = {} /\ \A s \in Sockets : inbox[s] = <<>>

\* C7 as stated: once every handler has finished and every event is handled,
\* all connected sessions show the same alert state.
C7_SharedSlot ==
    Quiet => \A s1, s2 \in Connected : emergencyAlert[s1] = emergencyAlert[s2]

====
